---- MODULE Spec2Model ----
(***************************************************************************)
(* A model of src/tinder-wrapper.js: the TinderWrapper client, its eight   *)
(* endpoint methods, the response interpreter handleResponse and the       *)
(* request pipeline (_getRequest/_postRequest) that wraps a circuit        *)
(* breaker execution in a retry loop.                                      *)
(*                                                                         *)
(* JavaScript runs the synchronous part of a method (the Promise.try       *)
(* callback) at the call, and every .then callback in a later turn of      *)
(* the event loop: each turn is one action here.                           *)
(***************************************************************************)
EXTENDS Integers, Sequences, FiniteSets, TLC

\* The fields of the model's records, in the order the records list them.
Fields ==
  [ type |-> "the JavaScript type of a value",
    s |-> "the text of a string",
    valid |-> "whether a Date holds a time value",
    day |-> "a Date's days since the epoch",
    ms |-> "a Date's milliseconds of the day",
    name |-> "an error's class",
    code |-> "an error's status code",
    obj |-> "whether a body is an object",
    kind |-> "what an attempt or a promise ended with",
    verb |-> "GET or POST",
    url |-> "the path requested",
    status |-> "statusCode, or the status of a body",
    token |-> "the X-Auth-Token header, or the token of a body",
    likes_remaining |-> "of a like body",
    facebook_token |-> "of the auth body",
    facebook_id |-> "of the auth body",
    locale |-> "of the auth body",
    last_activity_date |-> "of the updates body",
    message |-> "of the message body",
    body |-> "a request's or a response's body",
    ok |-> "whether a callback returned",
    err |-> "the error thrown",
    value |-> "the value returned",
    x |-> "a method's first argument",
    y |-> "its second argument, or a year",
    m |-> "a month",
    d |-> "a day of the month",
    pc |-> "where a call is",
    method |-> "the method called",
    args |-> "its arguments",
    opts |-> "its request descriptor",
    tries |-> "failed attempts so far",
    sent |-> "transport invocations so far",
    hist |-> "how each attempt ended",
    response |-> "the last response",
    result |-> "what the promise settled with",
    total |-> "outcomes in the breaker's window",
    failed |-> "failures among them" ]

(***************************************************************************)
(* Bounds and program constants.                                           *)
(***************************************************************************)
\* retry.max_tries of defaultOptions
DefaultMaxTries == 2
\* a max_tries the constructor's caller overrides the default with
MaxTriesOverride == 3
\* breaker.threshold of defaultOptions
Threshold == 80
\* outcomes the breaker's measurement window holds at most
MaxWindow == 3
\* the promises (call slots) the client's caller can hold at a time
NCalls == 2

Calls == 1..NCalls

(***************************************************************************)
(* JavaScript values.                                                      *)
(***************************************************************************)
\* the value of a variable or property that was never set
Undefined == "undefined"
\* the tokens the remote service issues
Tokens == {"t1", "t2"}

JsUndefined == [type |-> "undefined"]
JsNumber == [type |-> "number"]
JsStr(s) == [type |-> "string", s |-> s]
JsStringObject(s) == [type |-> "String", s |-> s]
JsDate(day, ms) == [type |-> "date", valid |-> TRUE, day |-> day, ms |-> ms]
JsInvalidDate == [type |-> "date", valid |-> FALSE, day |-> 0, ms |-> 0]

\* !v of JavaScript, for an argument value
Falsy(v) ==
  \/ v.type = "undefined"
  \/ v.type = "string" /\ v.s = ""

\* !this._authToken
NoCredential(tok) == tok \in {Undefined, ""}

(***************************************************************************)
(* Date.prototype.toISOString: YYYY-MM-DDTHH:mm:ss.sssZ of a time value,   *)
(* held as days since the epoch and milliseconds of the day.               *)
(***************************************************************************)
Pad(n, w) ==
  LET s == ToString(n)
  IN  IF Len(s) >= w THEN s ELSE SubSeq("000000", 1, w - Len(s)) \o s

CivilFromDays(z) ==
  LET zz  == z + 719468
      era == zz \div 146097
      doe == zz - era * 146097
      yoe == (doe - doe \div 1460 + doe \div 36524 - doe \div 146096) \div 365
      doy == doe - (365 * yoe + yoe \div 4 - yoe \div 100)
      mp  == (5 * doy + 2) \div 153
      d   == doy - (153 * mp + 2) \div 5 + 1
      m   == IF mp < 10 THEN mp + 3 ELSE mp - 9
      y   == yoe + era * 400 + (IF m <= 2 THEN 1 ELSE 0)
  IN  [y |-> y, m |-> m, d |-> d]

\* (mutant) the month as getUTCMonth counts it, from 0
toISOString_MonthFromZero(date) ==
  LET c  == CivilFromDays(date.day)
      h  == date.ms \div 3600000
      mi == (date.ms \div 60000) % 60
      s  == (date.ms \div 1000) % 60
      ms == date.ms % 1000
  IN  Pad(c.y, 4) \o "-" \o Pad(c.m - 1, 2) \o "-" \o Pad(c.d, 2) \o "T"
        \o Pad(h, 2) \o ":" \o Pad(mi, 2) \o ":" \o Pad(s, 2) \o "."
        \o Pad(ms, 3) \o "Z"

toISOString(date) ==
  LET c  == CivilFromDays(date.day)
      h  == date.ms \div 3600000
      mi == (date.ms \div 60000) % 60
      s  == (date.ms \div 1000) % 60
      ms == date.ms % 1000
  IN  Pad(c.y, 4) \o "-" \o Pad(c.m, 2) \o "-" \o Pad(c.d, 2) \o "T"
        \o Pad(h, 2) \o ":" \o Pad(mi, 2) \o ":" \o Pad(s, 2) \o "."
        \o Pad(ms, 3) \o "Z"

(***************************************************************************)
(* Errors, responses and the response interpreter.                         *)
(***************************************************************************)
Err(name, code) == [name |-> name, code |-> code]
InvalidArguments == Err("InvalidArguments", 0)
NotAuthorized == Err("TinderNotAuthorizedError", 0)
OutOfLikes == Err("TinderOutOfLikesError", 0)
HttpError(status) == Err("HttpError", status)
AppError(status) == Err("AppError", status)
NetworkError == Err("NetworkError", 0)
TimeoutError == Err("TimeoutError", 0)
CircuitBrokenError == Err("CircuitBrokenError", 0)
TypeError == Err("TypeError", 0)
RangeError == Err("RangeError", 0)
NoError == Err("none", 0)

\* a response without a body (body undefined)
NoBody == [obj |-> FALSE]
\* the JSON object {}
EmptyObj == [obj |-> TRUE]
Has(body, f) == f \in DOMAIN body

Bodies ==
  { NoBody,
    EmptyObj,
    [obj |-> TRUE, token |-> "t1"],
    [obj |-> TRUE, token |-> "t2"],
    [obj |-> TRUE, likes_remaining |-> 0],
    [obj |-> TRUE, likes_remaining |-> 5],
    [obj |-> TRUE, status |-> 200, token |-> "t1", likes_remaining |-> 5],
    [obj |-> TRUE, status |-> 400, token |-> "t1", likes_remaining |-> 5] }

Response(status, body) == [kind |-> "response", status |-> status, body |-> body]
NoResponse == [kind |-> "none", status |-> 0, body |-> NoBody]

\* what the transport hands back for one invocation
Responses ==
  { Response(200, b) : b \in Bodies }
    \cup { Response(401, EmptyObj), Response(404, EmptyObj), Response(500, EmptyObj) }

Thrown(e) == [ok |-> FALSE, err |-> e, value |-> NoBody]
Returned(v) == [ok |-> TRUE, err |-> NoError, value |-> v]

\* (mutant) the first test reads 200 for 300
handleResponse_From200(response) ==
  IF response.status >= 200
  THEN IF response.status = 401
       THEN Thrown(NotAuthorized)
       ELSE Thrown(HttpError(response.status))
  ELSE LET body == response.body
       IN  IF body.obj /\ Has(body, "status") /\ body.status # 0 /\ body.status # 200
           THEN Thrown(AppError(body.status))
           ELSE Returned(body)

\* (mutant) the switch has no case 401
handleResponse_No401Case(response) ==
  IF response.status >= 300
  THEN Thrown(HttpError(response.status))
  ELSE LET body == response.body
       IN  IF body.obj /\ Has(body, "status") /\ body.status # 0 /\ body.status # 200
           THEN Thrown(AppError(body.status))
           ELSE Returned(body)

handleResponse(response) ==
  IF response.status >= 300
  THEN IF response.status = 401
       THEN Thrown(NotAuthorized)
       ELSE Thrown(HttpError(response.status))
  ELSE LET body == response.body
       IN  IF body.obj /\ Has(body, "status") /\ body.status # 0 /\ body.status # 200
           THEN Thrown(AppError(body.status))
           ELSE Returned(body)

(***************************************************************************)
(* The endpoint methods: arguments, validation, request descriptors.       *)
(***************************************************************************)
GetMethods == {"getRecommendations", "getAccount", "getUser", "like", "pass"}
PostMethods == {"authorize", "getUpdates", "sendMessage"}
Methods == GetMethods \cup PostMethods
\* every method but authorize checks the session credential
AuthMethods == Methods \ {"authorize"}

\* an ISO-8601 text, the date value it is the text of, and the epoch
IsoText == "2000-02-29T12:34:56.789Z"
SomeDate == JsDate(11016, 45296789)
Epoch == JsDate(0, 0)

\* the argument lists a caller passes, as (x, y); a missing argument is undefined
ArgsOf(m) ==
  CASE m = "authorize" ->
         [x : {JsStr("fbtoken"), JsUndefined}, y : {JsStr("fbid"), JsUndefined}]
    [] m \in {"getRecommendations", "getAccount"} ->
         {[x |-> JsUndefined, y |-> JsUndefined]}
    [] m \in {"getUser", "like", "pass"} ->
         [x : {JsStr("u1"), JsUndefined}, y : {JsUndefined}]
    [] m = "sendMessage" ->
         [x : {JsStr("m1"), JsUndefined}, y : {JsStr("hello"), JsStr("")}]
    [] m = "getUpdates" ->
         [x : {JsUndefined, JsStr(""), JsStr(IsoText), JsStringObject(IsoText),
               SomeDate, Epoch, JsInvalidDate, JsNumber},
          y : {JsUndefined}]

\* getUpdates (lastActivityDate = ''): the default replaces a missing argument
LastActivityDate(args) == IF args.x.type = "undefined" THEN JsStr("") ELSE args.x

\* the argument test of each Promise.try callback
ArgsRejected(m, args) ==
  CASE m = "authorize" -> Falsy(args.x) \/ Falsy(args.y)
    [] m \in {"getRecommendations", "getAccount"} -> FALSE
    [] m \in {"getUser", "like", "pass"} -> Falsy(args.x)
    [] m = "sendMessage" -> Falsy(args.x) \/ Falsy(args.y)
    [] m = "getUpdates" ->
         LET d == LastActivityDate(args)
         IN  /\ ~(d.type = "date")
             /\ ~(d.type = "String" \/ (d.type = "string" /\ d.s = ""))

\* (mutant) like does not test the credential
Validate_LikeUnchecked(m, args, tok) ==
  IF ArgsRejected(m, args) THEN InvalidArguments
  ELSE IF m \in AuthMethods \ {"like"} /\ NoCredential(tok) THEN NotAuthorized
  ELSE NoError

\* (mutant) the credential test comes first
Validate_CredentialFirst(m, args, tok) ==
  IF m \in AuthMethods /\ NoCredential(tok) THEN NotAuthorized
  ELSE IF ArgsRejected(m, args) THEN InvalidArguments
  ELSE NoError

\* the Promise.try callback of a method: the error it throws, or NoError
Validate(m, args, tok) ==
  IF ArgsRejected(m, args) THEN InvalidArguments
  ELSE IF m \in AuthMethods /\ NoCredential(tok) THEN NotAuthorized
  ELSE NoError

NoHeader == "(no X-Auth-Token header)"
NoOpts == [verb |-> "none", url |-> "", token |-> NoHeader, body |-> NoBody]

\* the text a template literal or a JSON body shows for an argument value
Text(v) == IF v.type \in {"string", "String"} THEN v.s ELSE v.type

\* the first .then callback of a method: the request descriptor it builds
\* (toISOString of an invalid date throws before anything is built)
BuildThrows(m, args) ==
  m = "getUpdates" /\ LastActivityDate(args).type = "date" /\ ~LastActivityDate(args).valid

BuildOptions(m, args, tok) ==
  CASE m = "authorize" ->
         [verb |-> "POST", url |-> "/auth", token |-> NoHeader,
          body |-> [obj |-> TRUE, facebook_token |-> Text(args.x),
                    facebook_id |-> Text(args.y), locale |-> "en"]]
    [] m = "getRecommendations" ->
         [verb |-> "GET", url |-> "/user/recs", token |-> tok, body |-> NoBody]
    [] m = "getAccount" ->
         [verb |-> "GET", url |-> "/meta", token |-> tok, body |-> NoBody]
    [] m = "getUser" ->
         [verb |-> "GET", url |-> "/user/" \o Text(args.x), token |-> tok, body |-> NoBody]
    [] m = "getUpdates" ->
         LET d == LastActivityDate(args)
             _lastActivityDate == IF d.type = "date" THEN JsStr(toISOString(d)) ELSE d
         IN  [verb |-> "POST", url |-> "/updates", token |-> tok,
              body |-> [obj |-> TRUE, last_activity_date |-> _lastActivityDate]]
    [] m = "sendMessage" ->
         [verb |-> "POST", url |-> "/user/matches/" \o Text(args.x), token |-> tok,
          body |-> [obj |-> TRUE, message |-> Text(args.y)]]
    [] m = "like" ->
         [verb |-> "GET", url |-> "/like/" \o Text(args.x), token |-> tok, body |-> NoBody]
    [] m = "pass" ->
         [verb |-> "GET", url |-> "/pass/" \o Text(args.x), token |-> tok, body |-> NoBody]

\* (mutant) like returns the data without the likes_remaining test
Interpret_NoLikesTest(m, response) ==
  LET r == handleResponse(response)
      data == r.value
  IN  IF ~r.ok THEN r
      ELSE IF m = "authorize" /\ ~data.obj THEN Thrown(TypeError)
      ELSE r

\* the callbacks a method chains after the dispatched request resolves:
\* handleResponse, then (authorize) the store of data.token or (like) the
\* likes_remaining test
Interpret(m, response) ==
  LET r == handleResponse(response)
      data == r.value
  IN  IF ~r.ok THEN r
      ELSE IF m = "authorize" /\ ~data.obj THEN Thrown(TypeError)
      ELSE IF m = "like" /\ data.obj
                /\ (~Has(data, "likes_remaining") \/ data.likes_remaining = 0)
           THEN Thrown(OutOfLikes)
      ELSE r

\* (mutant) authorize reads a field the answer does not have
TokenOf_WrongField(data) == IF Has(data, "auth_token") THEN data.auth_token ELSE Undefined

\* the value authorize stores: data.token, undefined when the field is missing
TokenOf(data) == IF Has(data, "token") THEN data.token ELSE Undefined

\* (mutant) authorize keeps a credential that is already there
Stored_KeepsPresent(m, r, tok) ==
  IF r.ok /\ m = "authorize" /\ NoCredential(tok) THEN TokenOf(r.value) ELSE tok

\* (mutant) every method stores the token of the data it resolves with
Stored_AnyMethod(m, r, tok) ==
  IF r.ok /\ r.value.obj THEN TokenOf(r.value) ELSE tok

\* this._authToken after the method's callbacks have run with outcome r,
\* when it was tok before: authorize, when it resolves, has stored data.token
Stored(m, r, tok) ==
  IF r.ok /\ m = "authorize" THEN TokenOf(r.value) ELSE tok

(***************************************************************************)
(* State.                                                                  *)
(***************************************************************************)
VARIABLES
  max_tries,    \* this._options.retry.max_tries
  authToken,    \* this._authToken
  circuitOpen,  \* the state of this._breaker, which both slave circuits consult
  stats,        \* the outcomes this._breaker has recorded in its window
  calls         \* the method calls whose promise the caller holds

vars == <<max_tries, authToken, circuitOpen, stats, calls>>

NoResult == [kind |-> "none", err |-> NoError, value |-> NoBody]

\* hist: what each execution of the slave circuit ended with, in order;
\* sent: the transport invocations made for the call
IdleCall ==
  [pc |-> "idle", method |-> "none", args |-> [x |-> JsUndefined, y |-> JsUndefined],
   opts |-> NoOpts, tries |-> 0, sent |-> 0, hist |-> <<>>,
   response |-> NoResponse, result |-> NoResult]

Settled(call) == call.pc \in {"fulfilled", "rejected"}

Reject(call, e) ==
  [call EXCEPT !.pc = "rejected", !.result = [kind |-> "rejected", err |-> e, value |-> NoBody]]

Fulfil(call, v) ==
  [call EXCEPT !.pc = "fulfilled", !.result = [kind |-> "fulfilled", err |-> NoError, value |-> v]]

Init ==
  /\ max_tries \in {DefaultMaxTries, MaxTriesOverride}
  /\ authToken = Undefined
  /\ circuitOpen = FALSE
  /\ stats = [total |-> 0, failed |-> 0]
  /\ calls = [c \in Calls |-> IdleCall]

(***************************************************************************)
(* The breaker (this._breaker and its two slave circuits).                 *)
(***************************************************************************)
\* the breaker's count of one more outcome
Record(s, failure) ==
  [total |-> s.total + 1, failed |-> s.failed + (IF failure THEN 1 ELSE 0)]

\* the failure rate of the window has crossed the threshold (a percentage)
PastThreshold(s) == s.total > 0 /\ s.failed * 100 >= Threshold * s.total

\* (mutant) exec calls the transport whatever the circuit's state
ExecRejects_Never(open) == FALSE

\* exec of a slave circuit: an open circuit rejects without calling the
\* transport
ExecRejects(open) == open

(***************************************************************************)
(* The retry loop around one execution.                                    *)
(***************************************************************************)
\* retry's handling of a failed attempt: give up with the attempt's own error
\* (throw_original) at max_tries attempts or when the next attempt would pass
\* the overall timeout (timeUp), else wait and try again
\* (mutant) throw_original is not set: retry gives up with its own error
AfterFailure_NotOriginal(call, e, outcome, timeUp) ==
  LET c1 == [call EXCEPT !.tries = call.tries + 1, !.hist = Append(call.hist, outcome)]
  IN  IF c1.tries = max_tries \/ timeUp
      THEN Reject(c1, Err("OperationalError", 0))
      ELSE [c1 EXCEPT !.pc = "waiting"]

AfterFailure(call, e, outcome, timeUp) ==
  LET c1 == [call EXCEPT !.tries = call.tries + 1, !.hist = Append(call.hist, outcome)]
  IN  IF c1.tries = max_tries \/ timeUp
      THEN Reject(c1, e)
      ELSE [c1 EXCEPT !.pc = "waiting"]

\* (mutant) client errors are thrown to the retry loop too
IsServerError_From400(status) == status >= 400

\* the test the pipeline makes of a response before it returns it:
\* statusCode >= 500 is thrown to the retry loop
IsServerError(status) == status >= 500

\* (mutant) the status test is made inside the function the circuit executes
AnswerIsFailure_ServerError(response) == IsServerError(response.status)

\* what the breaker makes of an execution the transport answered: the
\* promise of getAsync/postAsync resolved, a success whatever the status
\* (the status test is in the .then chained on exec's promise)
AnswerIsFailure(response) == FALSE

\* whether the overall timeout (16 s) can be what ends the retries after this
\* failure: not after a first attempt, which the breaker's timeout ends
\* within 12 s, a retry interval (1 s) short of it
TimeUps(call) == IF call.tries = 0 THEN {FALSE} ELSE BOOLEAN

Outcome(kind, status) == [kind |-> kind, status |-> status]

\* one execution of the slave circuit for the call's request descriptor:
\* the circuit is open and the attempt fails at once, or the transport is
\* invoked and the call waits for it
Dispatch(c, call) ==
  IF ExecRejects(circuitOpen)
  THEN \E timeUp \in TimeUps(call) :
         calls' = [calls EXCEPT ![c] =
                     AfterFailure(call, CircuitBrokenError, Outcome("open", 0), timeUp)]
  ELSE calls' = [calls EXCEPT ![c] = [call EXCEPT !.pc = "inflight", !.sent = call.sent + 1]]

(***************************************************************************)
(* Actions.                                                                *)
(***************************************************************************)
\* set authToken (authToken)
SetAuthToken(v) ==
  /\ authToken' = v
  /\ UNCHANGED <<max_tries, circuitOpen, stats, calls>>

\* a method is called: its Promise.try callback runs at once (the caller
\* keeps the promise in its first free slot)
Call(c, m, args) ==
  /\ calls[c].pc = "idle"
  /\ \A d \in Calls : d < c => calls[d].pc # "idle"
  /\ LET e == Validate(m, args, authToken)
         call == [IdleCall EXCEPT !.method = m, !.args = args]
     IN  calls' = [calls EXCEPT ![c] =
                     IF e = NoError THEN [call EXCEPT !.pc = "checked"] ELSE Reject(call, e)]
  /\ UNCHANGED <<max_tries, authToken, circuitOpen, stats>>

\* the .then callback of the method: it builds the request descriptor from
\* the credential as it is now and dispatches it (the first attempt)
Build(c) ==
  /\ calls[c].pc = "checked"
  /\ stats.total < MaxWindow
  /\ LET call == calls[c]
     IN  IF BuildThrows(call.method, call.args)
         THEN calls' = [calls EXCEPT ![c] = Reject(call, RangeError)]
         ELSE Dispatch(c, [call EXCEPT !.opts = BuildOptions(call.method, call.args, authToken)])
  /\ UNCHANGED <<max_tries, authToken, circuitOpen, stats>>

\* (mutant) the descriptor is built anew for each attempt
Retry_Rebuilds(c) ==
  /\ calls[c].pc = "waiting"
  /\ stats.total < MaxWindow
  /\ Dispatch(c, [calls[c] EXCEPT
                    !.opts = BuildOptions(calls[c].method, calls[c].args, authToken)])
  /\ UNCHANGED <<max_tries, authToken, circuitOpen, stats>>

\* the retry delay is over: the next attempt, with the same descriptor
Retry(c) ==
  /\ calls[c].pc = "waiting"
  /\ stats.total < MaxWindow
  /\ Dispatch(c, calls[c])
  /\ UNCHANGED <<max_tries, authToken, circuitOpen, stats>>

\* the transport fails (a network error), or the breaker's timeout passes
\* before it answers: the breaker records a failure and the attempt fails
TransportFails(c, e) ==
  /\ calls[c].pc = "inflight"
  /\ LET s1 == Record(stats, TRUE)
     IN  /\ stats' = s1
         /\ circuitOpen' = (circuitOpen \/ PastThreshold(s1))
  /\ \E timeUp \in TimeUps(calls[c]) :
       calls' = [calls EXCEPT ![c] =
                   AfterFailure(calls[c], e,
                                Outcome(IF e = TimeoutError THEN "timeout" ELSE "neterr", 0),
                                timeUp)]
  /\ UNCHANGED <<max_tries, authToken>>

\* the transport answers: the breaker records a success; a status >= 500 is
\* thrown to the retry loop, any other response goes to the method's
\* callbacks (handleResponse, then authorize's store or like's test)
Respond(c, response) ==
  /\ calls[c].pc = "inflight"
  /\ LET s1 == Record(stats, AnswerIsFailure(response))
     IN  /\ stats' = s1
         /\ circuitOpen' = (circuitOpen \/ PastThreshold(s1))
  /\ LET call == [calls[c] EXCEPT !.response = response]
         out == Outcome("response", response.status)
     IN  IF IsServerError(response.status)
         THEN /\ \E timeUp \in TimeUps(call) :
                   calls' = [calls EXCEPT ![c] =
                               AfterFailure(call, HttpError(response.status), out, timeUp)]
              /\ UNCHANGED authToken
         ELSE LET done == [call EXCEPT !.hist = Append(call.hist, out)]
                  r == Interpret(call.method, response)
              IN  /\ calls' = [calls EXCEPT ![c] =
                                 IF r.ok THEN Fulfil(done, r.value) ELSE Reject(done, r.err)]
                  /\ authToken' = Stored(call.method, r, authToken)
  /\ UNCHANGED max_tries

\* the caller is done with a settled promise
Return(c) ==
  /\ Settled(calls[c])
  /\ calls' = [calls EXCEPT ![c] = IdleCall]
  /\ UNCHANGED <<max_tries, authToken, circuitOpen, stats>>

\* a call lasts max_tries attempts of at most the breaker's timeout (12 s)
\* and the retry intervals (1 s) between them, and circuitDuration is 3 h: a
\* call that has invoked the transport is over before the circuit that
\* opened since closes again
Pending(call) == call.pc \in {"checked", "inflight", "waiting"}
OutlastsCalls == \A c \in Calls : Pending(calls[c]) => calls[c].sent = 0

\* circuitDuration has passed since the circuit opened: it closes, with a
\* fresh window
CircuitDurationElapsed ==
  /\ circuitOpen
  /\ OutlastsCalls
  /\ circuitOpen' = FALSE
  /\ stats' = [total |-> 0, failed |-> 0]
  /\ UNCHANGED <<max_tries, authToken, calls>>

\* the oldest outcome leaves the measurement window
WindowRolls(failure) ==
  /\ stats.total > 0
  /\ IF failure THEN stats.failed > 0 ELSE stats.total > stats.failed
  /\ stats' = [total |-> stats.total - 1, failed |-> stats.failed - (IF failure THEN 1 ELSE 0)]
  /\ UNCHANGED <<max_tries, authToken, circuitOpen, calls>>

\* the caller awaits each call before it makes the next
NonePending == \A c \in Calls : calls[c].pc = "idle"

Next ==
  \/ \E v \in Tokens \cup {Undefined} : SetAuthToken(v)
  \/ \E c \in Calls, m \in Methods : \E args \in ArgsOf(m) :
       NonePending /\ Call(c, m, args)
  \/ \E c \in Calls : Build(c)
  \/ \E c \in Calls : Retry(c)
  \/ \E c \in Calls, e \in {NetworkError, TimeoutError} : TransportFails(c, e)
  \/ \E c \in Calls, response \in Responses : Respond(c, response)
  \/ \E c \in Calls : Return(c)
  \/ CircuitDurationElapsed
  \/ \E failure \in BOOLEAN : WindowRolls(failure)

Spec == Init /\ [][Next]_vars

(***************************************************************************)
(* Concurrent callers: a method is called while earlier calls are still    *)
(* pending, and the caller keeps every promise (no slot is used twice, so  *)
(* the slots hold all that has happened). The credential is set, if at     *)
(* all, before the first call.                                             *)
(***************************************************************************)
\* the methods the concurrent callers call: one POST, one GET
ConcurrentMethods == {"authorize", "getRecommendations"}
\* the answers they get
ConcurrentResponses ==
  { Response(200, [obj |-> TRUE, token |-> "t1"]),
    Response(200, [obj |-> TRUE, token |-> "t2"]),
    Response(500, EmptyObj) }

InitConcurrent == Init /\ max_tries = DefaultMaxTries

NextConcurrent ==
  \/ \E v \in Tokens : NonePending /\ SetAuthToken(v)
  \/ \E c \in Calls, m \in ConcurrentMethods : \E args \in ArgsOf(m) : Call(c, m, args)
  \/ \E c \in Calls : Build(c)
  \/ \E c \in Calls : Retry(c)
  \/ \E c \in Calls : TransportFails(c, NetworkError)
  \/ \E c \in Calls, response \in ConcurrentResponses : Respond(c, response)

SpecConcurrent == InitConcurrent /\ [][NextConcurrent]_vars

(***************************************************************************)
(* The response interpreter on its own: handleResponse applied to a        *)
(* response it is handed, whatever its status and body. The first slot     *)
(* holds the response and then what handleResponse returned or threw.      *)
(***************************************************************************)
\* the statusCode values handed to handleResponse
InterpreterStatuses == {200, 201, 299, 300, 304, 400, 401, 404, 500, 503}
\* the bodies: those of Bodies, and bodies with other status fields
InterpreterBodies ==
  Bodies \cup { [obj |-> TRUE, status |-> 0],
                [obj |-> TRUE, status |-> 200],
                [obj |-> TRUE, status |-> 401],
                [obj |-> TRUE, status |-> 500, likes_remaining |-> 0] }

InitHandleResponse ==
  /\ max_tries = DefaultMaxTries
  /\ authToken = Undefined
  /\ circuitOpen = FALSE
  /\ stats = [total |-> 0, failed |-> 0]
  /\ \E status \in InterpreterStatuses, body \in InterpreterBodies :
       calls = [c \in Calls |->
                  IF c = 1 THEN [IdleCall EXCEPT !.response = Response(status, body)]
                  ELSE IdleCall]

\* handleResponse(response)
HandleResponse(c) ==
  /\ calls[c].pc = "idle"
  /\ calls[c].response.kind = "response"
  /\ LET r == handleResponse(calls[c].response)
     IN  calls' = [calls EXCEPT ![c] =
                     IF r.ok THEN Fulfil(calls[c], r.value) ELSE Reject(calls[c], r.err)]
  /\ UNCHANGED <<max_tries, authToken, circuitOpen, stats>>

NextHandleResponse == \E c \in Calls : HandleResponse(c)

SpecHandleResponse == InitHandleResponse /\ [][NextHandleResponse]_vars

(***************************************************************************)
(* Properties.                                                             *)
(***************************************************************************)
Last(h) == h[Len(h)]
IsResponse(o, status) == o.kind = "response" /\ o.status = status
\* the call's attempts were all answered, with exactly these statuses
Answered(call, statuses) ==
  /\ Len(call.hist) = Len(statuses)
  /\ \A i \in DOMAIN statuses : IsResponse(call.hist[i], statuses[i])
\* the step calls a method in slot c
Called(c) == calls[c].pc = "idle" /\ calls'[c].pc # "idle"
RejectedWith(call, e) == call.pc = "rejected" /\ call.result.err = e

\* C1: an authenticated method called with arguments its argument test
\* accepts, while the session credential is absent, is rejected with
\* NotAuthorized at the call, and no transport invocation is ever made for it.
C1_NotAuthorizedBeforeTransport ==
  /\ [][\A c \in Calls :
          (/\ Called(c)
           /\ calls'[c].method \in AuthMethods
           /\ ~ArgsRejected(calls'[c].method, calls'[c].args)
           /\ NoCredential(authToken))
          => RejectedWith(calls'[c], NotAuthorized) /\ calls'[c].sent = 0]_vars
  /\ [][\A c \in Calls :
          calls[c].pc = "rejected" /\ calls'[c].pc # "idle" => calls'[c] = calls[c]]_vars

C1_Witness ==
  \E c \in Calls :
    /\ calls[c].method = "like"
    /\ ~ArgsRejected("like", calls[c].args)
    /\ RejectedWith(calls[c], NotAuthorized)
    /\ calls[c].hist = <<>>
    /\ calls[c].sent = 0

\* C2: authorize without a facebook token or without a facebook id is
\* rejected with InvalidArguments and no transport invocation; with both,
\* when POST /auth is answered 200 with a body that has a token field, the
\* call resolves unless the body reports an application-level error, and
\* when it resolves the session credential is that token.
C2_AuthorizeStoresToken ==
  /\ [][\A c \in Calls :
          Called(c) /\ calls'[c].method = "authorize"
            /\ (Falsy(calls'[c].args.x) \/ Falsy(calls'[c].args.y))
          => RejectedWith(calls'[c], InvalidArguments) /\ calls'[c].sent = 0]_vars
  /\ [][\A c \in Calls :
          (/\ calls[c].method = "authorize"
           /\ calls[c].pc = "inflight"
           /\ Settled(calls'[c])
           /\ calls'[c].response.kind = "response"
           /\ calls'[c].response.status = 200
           /\ Has(calls'[c].response.body, "token"))
          => LET body == calls'[c].response.body
             IN  /\ calls'[c].pc = "fulfilled" => authToken' = body.token
                 /\ (~Has(body, "status") \/ body.status = 200)
                      => calls'[c].pc = "fulfilled" /\ calls'[c].result.value = body]_vars

C2_Witness ==
  \E c \in Calls :
    /\ calls[c].method = "authorize"
    /\ calls[c].pc = "fulfilled"
    /\ calls[c].response.status = 200
    /\ calls[c].result.value = [obj |-> TRUE, token |-> "t2"]
    /\ authToken = "t2"

\* C3: with max_tries = 3, a call whose attempts are answered 500, 500, 200
\* has made exactly 3 transport invocations and is settled by the third
\* answer: it resolves with the body of the 200 response (authorize and like
\* make their own use of the body first, C2 and C7).
C3_RetryUntilSuccess ==
  \A c \in Calls :
    max_tries = 3 /\ Answered(calls[c], <<500, 500, 200>>)
    => /\ calls[c].sent = 3
       /\ Settled(calls[c])
       /\ calls[c].response.status = 200
       /\ LET body == calls[c].response.body
          IN  (~body.obj \/ ~Has(body, "status") \/ body.status = 200)
                /\ calls[c].method \notin {"authorize", "like"}
              => calls[c].pc = "fulfilled" /\ calls[c].result.value = body

C3_Witness ==
  \E c \in Calls :
    /\ max_tries = 3
    /\ Answered(calls[c], <<500, 500, 200>>)
    /\ calls[c].method = "getUser"
    /\ calls[c].pc = "fulfilled"
    /\ calls[c].sent = 3
    /\ calls[c].result.value = [obj |-> TRUE, token |-> "t1"]

\* C4: while the circuit is open no step invokes the transport, and an
\* attempt made then (a first attempt or a retry) fails at once with the
\* breaker's rejection; the circuit closes only with the fresh window that
\* the end of circuitDuration brings.
C4_OpenCircuitBlocksTransport ==
  /\ [][circuitOpen =>
          \A c \in Calls :
            /\ calls'[c].sent <= calls[c].sent
            /\ (calls[c].pc \in {"checked", "waiting"} /\ calls'[c] # calls[c]
                  /\ ~BuildThrows(calls[c].method, calls[c].args))
               => /\ Last(calls'[c].hist).kind = "open"
                  /\ calls'[c].tries = calls[c].tries + 1
                  /\ calls'[c].pc \in {"waiting", "rejected"}
                  /\ calls'[c].pc = "rejected"
                       => calls'[c].result.err = CircuitBrokenError]_vars
  /\ [][circuitOpen /\ ~circuitOpen' => stats'.total = 0]_vars

C4_Witness ==
  \E c \in Calls :
    /\ circuitOpen
    /\ RejectedWith(calls[c], CircuitBrokenError)
    /\ calls[c].sent = 0
    /\ calls[c].tries = max_tries
    /\ \A i \in DOMAIN calls[c].hist : calls[c].hist[i].kind = "open"

\* C5: a 401 answer ends the call with NotAuthorized and is never retried:
\* it is the last attempt of its call, whether or not earlier attempts were
\* retried, and a call whose first answer is 401 has made exactly one
\* transport invocation.
C5_UnauthorizedNotRetried ==
  \A c \in Calls : \A i \in DOMAIN calls[c].hist :
    IsResponse(calls[c].hist[i], 401)
    => /\ i = Len(calls[c].hist)
       /\ RejectedWith(calls[c], NotAuthorized)
       /\ calls[c].tries = i - 1
       /\ i = 1 => calls[c].sent = 1

C5_Witness ==
  \E c \in Calls :
    /\ Answered(calls[c], <<500, 401>>)
    /\ RejectedWith(calls[c], NotAuthorized)
    /\ calls[c].sent = 2

\* C6 (as claimed): every transport invocation of an authenticated method
\* carries a present credential in its X-Auth-Token header.
C6_Claimed ==
  \A c \in Calls :
    calls[c].method \in AuthMethods /\ calls[c].sent > 0
    => ~NoCredential(calls[c].opts.token)

\* C7: like, when the interpreted body has likes_remaining 0, is rejected
\* with OutOfLikes; when it has a positive likes_remaining it resolves with
\* that body.
C7_LikeOutOfLikes ==
  \A c \in Calls :
    LET call == calls[c]
        body == call.response.body
    IN  (/\ call.method = "like"
         /\ Settled(call)
         /\ call.hist # <<>>
         /\ Last(call.hist).kind = "response"
         /\ call.response.status < 300
         /\ body.obj
         /\ ~Has(body, "status") \/ body.status = 200
         /\ Has(body, "likes_remaining"))
        => /\ body.likes_remaining = 0 => RejectedWith(call, OutOfLikes)
           /\ body.likes_remaining > 0
                => call.pc = "fulfilled" /\ call.result.value = body

C7_Witness ==
  \E c \in Calls :
    /\ calls[c].method = "like"
    /\ RejectedWith(calls[c], OutOfLikes)
    /\ calls[c].response = Response(200, [obj |-> TRUE, likes_remaining |-> 0])
    /\ calls[c].sent = 1

\* C8 (as claimed): getUpdates called, with a credential present, with a
\* date value, an ISO-8601 string or the empty string passes its argument
\* test (and goes on to dispatch POST /updates).
C8_Claimed ==
  [][\A c \in Calls :
       (/\ Called(c)
        /\ calls'[c].method = "getUpdates"
        /\ ~NoCredential(authToken)
        /\ calls'[c].args.x \in {SomeDate, Epoch, JsStr(IsoText), JsStr("")})
       => calls'[c].pc = "checked"]_vars

\* C9: the body of every POST /updates that getUpdates sends has, as
\* last_activity_date, the ISO-8601 text of the date it was called with, and
\* the empty string when it was called with no argument.
C9_UpdatesBody ==
  \A c \in Calls :
    LET call == calls[c]
    IN  call.method = "getUpdates" /\ call.sent > 0
        => /\ call.opts.verb = "POST" /\ call.opts.url = "/updates"
           /\ call.args.x = SomeDate
                => call.opts.body.last_activity_date = JsStr("2000-02-29T12:34:56.789Z")
           /\ call.args.x = Epoch
                => call.opts.body.last_activity_date = JsStr("1970-01-01T00:00:00.000Z")
           /\ call.args.x = JsUndefined
                => call.opts.body.last_activity_date = JsStr("")

C9_Witness ==
  \E c \in Calls :
    /\ calls[c].method = "getUpdates"
    /\ calls[c].args.x = SomeDate
    /\ calls[c].pc = "inflight"
    /\ calls[c].sent = 1
    /\ calls[c].opts.body.last_activity_date = JsStr(IsoText)

\* the answers among a call's attempts, in order
RECURSIVE Answers(_)
Answers(h) ==
  IF h = <<>> THEN <<>>
  ELSE IF h[1].kind = "response" THEN <<h[1]>> \o Answers(Tail(h))
  ELSE Answers(Tail(h))

\* C10 (as claimed): a call whose first transport response has a status
\* below 500 makes exactly one transport invocation.
C10_Claimed ==
  \A c \in Calls :
    LET answers == Answers(calls[c].hist)
    IN  answers # <<>> /\ answers[1].status < 500 => calls[c].sent = 1

\* C10 (amended): an answer with a status below 500 is never retried; a call
\* whose first attempt is answered with such a status makes exactly that one
\* transport invocation and is settled by the answer: NotAuthorized for 401,
\* the HTTP error for another status >= 300, the application error of the
\* body, like's OutOfLikes, else the body.
C10_NoRetryBelow500 ==
  \A c \in Calls :
    LET call == calls[c]
        body == call.response.body
        appError == body.obj /\ Has(body, "status") /\ body.status \notin {0, 200}
    IN  /\ \A i \in DOMAIN call.hist :
             call.hist[i].kind = "response" /\ call.hist[i].status < 500
             => i = Len(call.hist) /\ Settled(call)
        /\ (call.hist # <<>> /\ call.hist[1].kind = "response" /\ call.hist[1].status < 500)
           => /\ call.sent = 1 /\ call.tries = 0
              /\ call.response.status = call.hist[1].status
              /\ call.response.status = 401 => RejectedWith(call, NotAuthorized)
              /\ call.response.status >= 300 /\ call.response.status # 401
                   => RejectedWith(call, HttpError(call.response.status))
              /\ call.response.status < 300 /\ appError
                   => RejectedWith(call, AppError(body.status))
              /\ call.response.status < 300 /\ ~appError
                   => \/ call.pc = "fulfilled" /\ call.result.value = body
                      \/ call.method = "like" /\ RejectedWith(call, OutOfLikes)
                      \/ call.method = "authorize" /\ ~body.obj
                           /\ RejectedWith(call, TypeError)

C10_Witness ==
  \E c \in Calls :
    /\ Answered(calls[c], <<404>>)
    /\ RejectedWith(calls[c], HttpError(404))
    /\ calls[c].sent = 1
    /\ calls[c].tries = 0

\* an attempt of the call was rejected by the open circuit
RejectedByOpenCircuit(call) == \E i \in DOMAIN call.hist : call.hist[i].kind = "open"
\* the breaker recorded a failure of an attempt of the call
FailureRecorded(call) == \E i \in DOMAIN call.hist : call.hist[i].kind \in {"neterr", "timeout"}

\* C11 (as claimed): the circuit is per verb: a POST call is rejected by the
\* open circuit only if a failure was recorded on a POST call, and a GET call
\* only if a failure was recorded on a GET call.
C11_Claimed ==
  \A c \in Calls :
    RejectedByOpenCircuit(calls[c])
    => \E d \in Calls : calls[d].opts.verb = calls[c].opts.verb /\ FailureRecorded(calls[d])

\* every attempt of the call was answered with a status >= 500
AllServerErrors(call) ==
  /\ call.hist # <<>>
  /\ \A i \in DOMAIN call.hist : call.hist[i].kind = "response" /\ call.hist[i].status >= 500

\* the error a failed attempt ends with
ErrorOf(outcome) ==
  CASE outcome.kind = "open" -> CircuitBrokenError
    [] outcome.kind = "neterr" -> NetworkError
    [] outcome.kind = "timeout" -> TimeoutError
    [] outcome.kind = "response" -> HttpError(outcome.status)

\* C12 (as claimed): a call makes at most max_tries transport invocations,
\* and one whose attempts are all answered with a status >= 500 is rejected
\* after exactly max_tries of them, with the error of the last response.
C12_Claimed ==
  \A c \in Calls :
    /\ calls[c].sent <= max_tries
    /\ AllServerErrors(calls[c]) /\ Settled(calls[c])
         => /\ calls[c].sent = max_tries
            /\ RejectedWith(calls[c], HttpError(Last(calls[c].hist).status))

\* C12 (amended): a call makes at most max_tries attempts and as many
\* transport invocations at most, and is rejected once max_tries attempts
\* have failed; a call that retry gives up on is rejected with the error of
\* its last attempt; a call whose attempts are all answered with a status
\* >= 500 is rejected with the error of the last response, after exactly
\* max_tries invocations with the default max_tries, and with a larger
\* max_tries after at least 2 and at most max_tries (the overall timeout can
\* end the retries first).
C12_AtMostMaxTries ==
  \A c \in Calls :
    LET call == calls[c]
    IN  /\ call.sent <= max_tries
        /\ Len(call.hist) <= max_tries
        /\ call.tries <= max_tries
        /\ call.tries = max_tries => call.pc = "rejected"
        /\ (call.pc = "rejected" /\ call.tries = Len(call.hist) /\ call.tries > 0)
             => call.result.err = ErrorOf(Last(call.hist))
        /\ AllServerErrors(call) /\ Settled(call)
             => /\ RejectedWith(call, HttpError(Last(call.hist).status))
                /\ call.sent = Len(call.hist)
                /\ call.sent >= 2
                /\ max_tries = DefaultMaxTries => call.sent = max_tries

C12_Witness ==
  \E c \in Calls :
    /\ max_tries = DefaultMaxTries
    /\ Answered(calls[c], <<500, 500>>)
    /\ RejectedWith(calls[c], HttpError(500))
    /\ calls[c].sent = 2
    /\ calls[c].tries = 2

\* the step answers an attempt of call c with a status >= 500
AnsweredServerError(c) ==
  /\ calls[c].pc = "inflight"
  /\ Len(calls'[c].hist) = Len(calls[c].hist) + 1
  /\ Last(calls'[c].hist).kind = "response"
  /\ Last(calls'[c].hist).status >= 500

\* C13: an answer with a status >= 500 is recorded by the breaker as a
\* success (one more outcome in the window, no more failures, the circuit as
\* it was) and fails the attempt for the retry loop (one more failed try:
\* the call waits for the next attempt or is rejected); as long as no
\* attempt has failed in the transport or timed out, whatever the answers,
\* the window holds no failure and the circuit is closed.
C13_ServerErrorRecordedAsSuccess ==
  /\ [][\A c \in Calls :
          AnsweredServerError(c)
          => /\ stats'.total = stats.total + 1
             /\ stats'.failed = stats.failed
             /\ circuitOpen' = circuitOpen
             /\ calls'[c].tries = calls[c].tries + 1
             /\ calls'[c].pc \in {"waiting", "rejected"}
             /\ calls'[c].pc = "rejected"
                  => calls'[c].result.err = HttpError(calls'[c].response.status)]_vars
  /\ []((\A c \in Calls : ~FailureRecorded(calls[c]))
          => stats.failed = 0 /\ ~circuitOpen)

C13_Witness ==
  /\ \E c \in Calls :
       /\ Answered(calls[c], <<500, 500>>)
       /\ RejectedWith(calls[c], HttpError(500))
  /\ \E c \in Calls : Answered(calls[c], <<500>>) /\ calls[c].pc = "waiting"
  /\ stats = [total |-> 3, failed |-> 0]
  /\ ~circuitOpen

\* C14 (as claimed): handleResponse fails with NotAuthorized for status 401,
\* with the HTTP error of the status for any other status >= 300, with the
\* application error of the body's status field for a status < 300 and a
\* body whose status field is present and not 200, and returns the body
\* unchanged in every other case.
C14_Claimed ==
  \A c \in Calls :
    LET call == calls[c]
        status == call.response.status
        body == call.response.body
        appError == body.obj /\ Has(body, "status") /\ body.status # 200
    IN  Settled(call)
        => /\ status = 401 => RejectedWith(call, NotAuthorized)
           /\ status >= 300 /\ status # 401 => RejectedWith(call, HttpError(status))
           /\ status < 300 /\ appError => RejectedWith(call, AppError(body.status))
           /\ status < 300 /\ ~appError
                => call.pc = "fulfilled" /\ call.result.value = body

\* C15 (as claimed): like is rejected with OutOfLikes only if the body has
\* likes_remaining 0: when like's answer has a status < 300 and a body
\* without an application-level error whose likes_remaining is not 0, or
\* which has no likes_remaining field, like resolves with that body.
C15_Claimed ==
  \A c \in Calls :
    LET call == calls[c]
        body == call.response.body
    IN  (/\ call.method = "like"
         /\ Settled(call)
         /\ call.hist # <<>>
         /\ Last(call.hist).kind = "response"
         /\ call.response.status < 300
         /\ body.obj
         /\ ~Has(body, "status") \/ body.status = 200
         /\ ~Has(body, "likes_remaining") \/ body.likes_remaining # 0)
        => call.pc = "fulfilled" /\ call.result.value = body

\* the step resolves the authorize call in slot c
AuthorizeResolves(c) ==
  /\ calls[c].method = "authorize"
  /\ calls[c].pc = "inflight"
  /\ calls'[c].pc = "fulfilled"

\* the authorize calls that have resolved
Authorized == {c \in Calls : calls[c].method = "authorize" /\ calls[c].pc = "fulfilled"}

\* C16: with several authorize calls in flight, the step that processes the
\* answer of one and resolves it leaves the credential equal to the token of
\* that answer, whatever the credential was and whichever call started
\* first; while calls are pending nothing else changes the credential; so
\* once an authorize has resolved the credential is the token of one of the
\* resolved authorize calls (of the one processed last), never another value.
C16_LastWriterWins ==
  /\ [][\A c \in Calls :
          AuthorizeResolves(c) => authToken' = TokenOf(calls'[c].response.body)]_vars
  /\ [][(~NonePending /\ authToken' # authToken)
          => \E c \in Calls : AuthorizeResolves(c)]_vars
  /\ [](Authorized # {}
          => authToken \in {TokenOf(calls[c].response.body) : c \in Authorized})

C16_Witness ==
  /\ calls[1].method = "authorize" /\ calls[1].pc = "fulfilled"
  /\ calls[2].method = "authorize" /\ calls[2].pc = "fulfilled"
  /\ calls[1].result.value = [obj |-> TRUE, token |-> "t1"]
  /\ calls[2].result.value = [obj |-> TRUE, token |-> "t2"]
  /\ authToken = "t1"

\* C17: a step changes the credential only if it is an assignment through
\* the authToken setter (no call moves) or resolves an authorize call whose
\* answer passed interpretation (a status < 300 and a body that is an object
\* whose status field, if any, handleResponse lets pass); every other step of every method,
\* a failing authorize included, leaves the credential as it was.
C17_CredentialFrame ==
  [][authToken' # authToken
       => \/ calls' = calls
          \/ \E c \in Calls :
               LET body == calls'[c].response.body
               IN  /\ AuthorizeResolves(c)
                   /\ calls'[c].response.status < 300
                   /\ body.obj
                   /\ ~Has(body, "status") \/ body.status \in {0, 200}
                   /\ \A d \in Calls \ {c} : calls'[d] = calls[d]]_vars

C17_Witness ==
  \E c \in Calls :
    /\ calls[c].method = "authorize"
    /\ RejectedWith(calls[c], AppError(400))
    /\ Has(calls[c].response.body, "token")
    /\ calls[c].response.body.token = "t1"
    /\ authToken = "t2"

\* the methods that test their arguments and then the credential
ArgMethods == {"getUser", "getUpdates", "sendMessage", "like", "pass"}

\* a required argument is missing (undefined or empty), or getUpdates is
\* handed a number, which is neither a date nor a string
MissingOrMalformed(m, args) ==
  \/ m \in {"getUser", "like", "pass"} /\ args.x \in {JsUndefined, JsStr("")}
  \/ m = "sendMessage" /\ (args.x \in {JsUndefined, JsStr("")} \/ args.y \in {JsUndefined, JsStr("")})
  \/ m = "getUpdates" /\ args.x = JsNumber

\* C18: getUser, getUpdates, sendMessage, like and pass, called with a
\* missing or malformed argument, are rejected with InvalidArguments at the
\* call, with or without a credential; a call that is rejected with
\* NotAuthorized at the call has arguments that are neither; neither makes a
\* transport invocation, then or later.
C18_ArgumentsBeforeCredential ==
  /\ [][\A c \in Calls :
          Called(c) /\ calls'[c].method \in ArgMethods
          => LET m == calls'[c].method
                 args == calls'[c].args
             IN  /\ MissingOrMalformed(m, args)
                      => RejectedWith(calls'[c], InvalidArguments) /\ calls'[c].sent = 0
                 /\ RejectedWith(calls'[c], NotAuthorized)
                      => /\ ~MissingOrMalformed(m, args)
                         /\ NoCredential(authToken)
                         /\ calls'[c].sent = 0]_vars
  /\ [](\A c \in Calls :
          RejectedWith(calls[c], InvalidArguments) => calls[c].sent = 0 /\ calls[c].hist = <<>>)

C18_Witness ==
  \E c \in Calls :
    /\ calls[c].method = "sendMessage"
    /\ calls[c].args = [x |-> JsStr("m1"), y |-> JsStr("")]
    /\ RejectedWith(calls[c], InvalidArguments)
    /\ calls[c].sent = 0
    /\ NoCredential(authToken)

\* C19: the request descriptor of a call is built once: from its first
\* attempt on it never changes, so each later attempt (a transport
\* invocation or a rejection by the open circuit) is made with the
\* descriptor, and the X-Auth-Token, of the first, whatever the credential
\* has become in between.
C19_DescriptorBuiltOnce ==
  [][\A c \in Calls :
       (calls[c].sent + calls[c].tries >= 1 /\ calls'[c].pc # "idle")
       => /\ calls'[c].opts = calls[c].opts
          /\ calls'[c].sent > calls[c].sent
               => /\ calls[c].pc = "waiting"
                  /\ calls'[c].sent = calls[c].sent + 1
                  /\ calls'[c].opts.token = calls[c].opts.token]_vars

C19_Witness ==
  \E c \in Calls :
    /\ calls[c].method = "getRecommendations"
    /\ calls[c].pc = "inflight"
    /\ calls[c].sent = 2
    /\ calls[c].opts.token = "t1"
    /\ authToken = "t2"

====
